---- MODULE Spec2Model ----
(***************************************************************************)
(* SecureCollabNotes: the server's session and room/note engine            *)
(* (finalServer.cc), the client's handshake and packet helpers             *)
(* (finalClient.cc), the key exchange (diffieHellman.cc) and the keystream *)
(* cipher (xor.cc).                                                        *)
(*                                                                         *)
(* Values of type unsigned long long that the model computes with are      *)
(* below 2^31 (DH_P = 2^31 - 1 bounds every key); TLC's integers are 32    *)
(* bits wide, so the 64-bit products of modular_pow are computed by        *)
(* MulMod, which never forms a value above its modulus.                    *)
(***************************************************************************)
EXTENDS Integers, Sequences, FiniteSets, TLC

VARIABLES
    client_list,    \* finalServer.cc:54  fd -> ClientContext or NULL
    room_list,      \* finalServer.cc:57  the linked list of rooms, head first
    next_room_id,   \* finalServer.cc:58
    selector,       \* finalServer.cc:147 the descriptors the selector watches
    peer,           \* the process at the other end of each descriptor
    toSrv,          \* transport: packets sent by the peer, not yet read
    toCli,          \* transport: packets sent by the server, not yet read
    calc            \* harness of the pure-function specifications

vars == <<client_list, room_list, next_room_id, selector, peer, toSrv, toCli, calc>>

srvVars == <<client_list, room_list, next_room_id, selector, peer, toSrv, toCli>>

(***************************************************************************)
(* Program constants                                                       *)
(***************************************************************************)
MSG_SIZE == 256

OP_DH_PUB == 1

OP_CREATE_ROOM == 10

OP_CREATE_ROOM_RESP == 11

OP_JOIN_ROOM == 12

OP_JOIN_ROOM_RESP == 13

OP_POST_NOTE == 20

OP_LIST_NOTES == 21

OP_LIST_NOTES_RESP == 22

OP_DISCONNECT == 30

OP_ERROR == 40

DH_P == 2147483647

DH_G == 5

MAX_CLIENTS == 1024

RAND_MAX == 2147483647

NULL == [null |-> TRUE]

(***************************************************************************)
(* Bounds of the model                                                     *)
(***************************************************************************)
MaxBufLen == 9

MaxRooms == 2

MaxNotes == 2

(***************************************************************************)
(* 64-bit unsigned arithmetic on values below 2^31                         *)
(***************************************************************************)
\* (a + b) % m for a, b < m, without forming a + b
AddMod(a, b, m) == IF a >= m - b THEN a - (m - b) ELSE a + b

\* (k * x) % m for x < m and k * k <= m, with no intermediate value above m:
\* with m = k * q + r, k * x = k * (x % q) - r * (x / q) modulo m
MulSmall(k, x, m) ==
    IF k = 0 THEN 0
    ELSE LET q == m \div k
             r == m % k
             t == k * (x % q) - r * (x \div q)
         IN  IF t < 0 THEN t + m ELSE t

\* (a * b) % m for a, b < m and 1 < m <= DH_P: the product is below 2^62,
\* so the 64-bit multiplication of the source does not wrap and the value is
\* exact.  A product that fits 31 bits is formed as it is; otherwise it is
\* computed on the digits of b, three of 15 bits for m >= 2^30 and five of
\* 7 bits below that, so that the square of a digit never exceeds m.
MulMod(a, b, m) ==
    IF m <= 46341 THEN (a * b) % m
    ELSE IF m >= 1073741824
    THEN LET b0 == b % 32768
             b1 == (b \div 32768) % 32768
             b2 == b \div 1073741824
             h2 == IF b2 = 1 THEN a ELSE 0
             h1 == AddMod(MulSmall(32768, h2, m), MulSmall(b1, a, m), m)
         IN  AddMod(MulSmall(32768, h1, m), MulSmall(b0, a, m), m)
    ELSE LET d0 == b % 128
             d1 == (b \div 128) % 128
             d2 == (b \div 16384) % 128
             d3 == (b \div 2097152) % 128
             d4 == b \div 268435456
             g4 == MulSmall(d4, a, m)
             g3 == AddMod(MulSmall(128, g4, m), MulSmall(d3, a, m), m)
             g2 == AddMod(MulSmall(128, g3, m), MulSmall(d2, a, m), m)
             g1 == AddMod(MulSmall(128, g2, m), MulSmall(d1, a, m), m)
         IN  AddMod(MulSmall(128, g1, m), MulSmall(d0, a, m), m)

(***************************************************************************)
(* diffieHellman.cc                                                        *)
(***************************************************************************)
\* the body of the loop squaring the base before it multiplies the result
modular_pow_step_square_first(v, mod) ==
    IF v.exp > 0
    THEN [result |-> IF v.exp % 2 = 1
                     THEN MulMod(v.result, MulMod(v.base, v.base, mod), mod)
                     ELSE v.result,
          exp    |-> v.exp \div 2,
          base   |-> MulMod(v.base, v.base, mod)]
    ELSE v

\* one pass of the body of the while loop of modular_pow on its variables
\* v = [result, base, exp]; no pass is made once exp is 0
modular_pow_step(v, mod) ==
    IF v.exp > 0
    THEN [result |-> IF v.exp % 2 = 1 THEN MulMod(v.result, v.base, mod)
                     ELSE v.result,
          exp    |-> v.exp \div 2,
          base   |-> MulMod(v.base, v.base, mod)]
    ELSE v

RECURSIVE modular_pow_loop(_, _)
\* the while loop of modular_pow, four passes at a time
modular_pow_loop(v, mod) ==
    IF v.exp > 0
    THEN modular_pow_loop(
            modular_pow_step(modular_pow_step(modular_pow_step(
                modular_pow_step(v, mod), mod), mod), mod), mod)
    ELSE v.result

\* modular_pow entered without base = base % mod
modular_pow_init_unreduced(base, exp, mod) ==
    [result |-> 1, base |-> base, exp |-> exp]

\* the variables of modular_pow when the loop is entered, lines 44-45
modular_pow_init(base, exp, mod) ==
    [result |-> 1, base |-> base % mod, exp |-> exp]

modular_pow(base, exp, mod) ==
    modular_pow_loop(modular_pow_init(base, exp, mod), mod)

\* priv = (((unsigned long long)r1 << 32) | r2) % (DH_P - 1) + 1, r2 < 2^32
dh_generate_private(r1, r2) ==
    LET m == DH_P - 1
        hi == MulMod(MulMod(r1 % m, 65536, m), 65536, m)
    IN  AddMod(hi, r2 % m, m) + 1

dh_compute_public(priv) == modular_pow(DH_G, priv, DH_P)

\* dh_compute_shared raising the generator instead of the peer's public key
dh_compute_shared_G(other_pub, priv) == modular_pow(DH_G, priv, DH_P)

dh_compute_shared(other_pub, priv) == modular_pow(other_pub, priv, DH_P)

(***************************************************************************)
(* xor.cc                                                                  *)
(***************************************************************************)
RECURSIVE BitXor(_, _, _)
\* a ^ b on the low n bits
BitXor(a, b, n) ==
    IF n = 0 THEN 0
    ELSE IF a = 0 THEN b
    ELSE IF b = 0 THEN a
    ELSE ((a + b) % 2) + 2 * BitXor(a \div 2, b \div 2, n - 1)

RECURSIVE BitOr(_, _, _)
\* a | b on the low n bits
BitOr(a, b, n) ==
    IF n = 0 THEN 0
    ELSE (IF a % 2 = 1 \/ b % 2 = 1 THEN 1 ELSE 0) + 2 * BitOr(a \div 2, b \div 2, n - 1)

\* the bytes of the key as a big-endian build lays them out
U64Bytes_big_endian(key) ==
    [i \in 1..8 |-> IF i >= 5 THEN (key \div (256 ^ (8 - i))) % 256 ELSE 0]

\* the 8 bytes of an unsigned long long below 2^31 as (char *)&key reads
\* them on the little-endian build
U64Bytes(key) ==
    [i \in 1..8 |-> IF i <= 4 THEN (key \div (256 ^ (i - 1))) % 256 ELSE 0]

\* xor_buffer combining with | instead of ^
xor_key_bytes_or(buf, len, key_bytes) ==
    [i \in 1..Len(buf) |->
        IF i <= len THEN BitOr(buf[i], key_bytes[((i - 1) % 8) + 1], 8) ELSE buf[i]]

\* the loop of xor_buffer; index i of the source is i - 1 here
xor_key_bytes(buf, len, key_bytes) ==
    [i \in 1..Len(buf) |->
        IF i <= len THEN BitXor(buf[i], key_bytes[((i - 1) % 8) + 1], 8) ELSE buf[i]]

xor_buffer(buf, len, key) == xor_key_bytes(buf, len, U64Bytes(key))

(***************************************************************************)
(* Packets and text (finalPacket.h)                                        *)
(***************************************************************************)
ZeroMsg == [i \in 1..MSG_SIZE |-> 0]

\* a text written into a zeroed message buffer
Pad(s) == [i \in 1..MSG_SIZE |-> IF i <= Len(s) THEN s[i] ELSE 0]

\* memset(&p, 0, sizeof(p))
ZeroPacket == [op |-> 0, room_id |-> 0, tag |-> 0, message |-> ZeroMsg]

RECURSIVE FormatDec(_)
\* the characters printf's %d / %llu write for n >= 0
FormatDec(n) ==
    IF n < 10 THEN <<48 + n>> ELSE Append(FormatDec(n \div 10), 48 + (n % 10))

RECURSIVE FormatHex(_)
\* the characters printf's %llx writes
FormatHex(n) ==
    LET d == n % 16
        c == IF d < 10 THEN 48 + d ELSE 87 + d
    IN  IF n < 16 THEN <<c>> ELSE Append(FormatHex(n \div 16), c)

\* the handshake text written with %llx in place of %llu
sprintf_llx(n) == Pad(FormatHex(n))

\* sprintf(message, "%llu", n) into a zeroed buffer
sprintf_llu(n) == Pad(FormatDec(n))

IsSpace(c) == c \in {9, 10, 11, 12, 13, 32}

IsDigit(c) == c >= 48 /\ c <= 57

RECURSIVE SkipSpace(_, _)
SkipSpace(msg, i) ==
    IF i <= Len(msg) /\ IsSpace(msg[i]) THEN SkipSpace(msg, i + 1) ELSE i

RECURSIVE ParseDigits(_, _, _)
ParseDigits(msg, i, acc) ==
    IF i <= Len(msg) /\ IsDigit(msg[i])
    THEN ParseDigits(msg, i + 1, acc * 10 + (msg[i] - 48))
    ELSE acc

\* strtoull(message, NULL, 10) on texts whose value is below 2^31: leading
\* white space, an optional '+', then decimal digits up to the first other
\* character; 0 when there is no digit
strtoull(msg) ==
    LET i == SkipSpace(msg, 1)
        j == IF i <= Len(msg) /\ msg[i] = 43 THEN i + 1 ELSE i
    IN  ParseDigits(msg, j, 0)

txtRoomCreated == <<82, 111, 111, 109, 32, 67, 114, 101, 97, 116, 101, 100, 33>>

txtJoinedRoom == <<74, 111, 105, 110, 101, 100, 32, 82, 111, 111, 109, 32>>

txtInvalidInvite ==
    <<73, 110, 118, 97, 108, 105, 100, 32, 73, 110, 118, 105, 116, 101, 32,
      67, 111, 100, 101>>

(***************************************************************************)
(* Bounded inputs                                                          *)
(***************************************************************************)
\* descriptors accept() hands out; MAX_CLIENTS stands for a full table
Fds == {4, 5, MAX_CLIENTS}

SlotFds == {fd \in Fds : fd < MAX_CLIENTS}

\* values of rand(), 0..RAND_MAX
RandVals == {0, 1, 9000 + 1}

\* the pairs of rand() values dh_generate_private draws
ServerKeyRands == {<<0, 0>>, <<5, 7>>}

ClientKeyRands == {<<RAND_MAX, RAND_MAX>>}

\* the same, for the specification of the handshake alone
HsServerRands == {<<0, 0>>, <<5, 7>>, <<RAND_MAX, 0>>, <<12345, 2147480000>>}

HsClientRands == {<<0, 1>>, <<RAND_MAX, RAND_MAX>>, <<9000, 40000>>, <<1, 2147483645>>}

\* invite codes a client types
JoinCodes == {1000, 1001}

\* notes a client types
Texts == {<<97>>, <<98>>}

(***************************************************************************)
(* finalServer.cc: helpers                                                 *)
(***************************************************************************)
NoPeer == [kind |-> "none", pc |-> "none", priv |-> 0, sharedKey |-> 0,
           currentRoomId |-> -1]

\* the transport delivers to a peer that still has its socket open
Deliver(fd, pkts) ==
    IF peer[fd].pc = "closed" THEN toCli
    ELSE [toCli EXCEPT ![fd] = toCli[fd] \o pkts]

\* the packet send_packet_enc puts on the wire
send_packet_enc(p, key) == [p EXCEPT !.message = xor_buffer(p.message, MSG_SIZE, key)]

\* create_room linking the new room at the tail of the list
new_room_back(code) ==
    room_list \o <<[id |-> next_room_id, invite_code |-> code,
                    notes |-> <<>>, note_count |-> 0]>>

\* create_room taking its id with ++next_room_id
new_room_pre_incr(code) ==
    <<[id |-> next_room_id + 1, invite_code |-> code,
       notes |-> <<>>, note_count |-> 0]>> \o room_list

\* create_room: the list after the new room is linked at its front
new_room(code) ==
    <<[id |-> next_room_id, invite_code |-> code,
       notes |-> <<>>, note_count |-> 0]>> \o room_list

RECURSIVE find_in(_, _, _)
\* the walk of find_room_by_id / find_room_by_invite from list position i
find_in(i, field, val) ==
    IF i > Len(room_list) THEN NULL
    ELSE IF room_list[i][field] = val THEN room_list[i]
    ELSE find_in(i + 1, field, val)

find_room_by_id(id) == find_in(1, "id", id)

find_room_by_invite(code) == find_in(1, "invite_code", code)

\* add_note taking the id with r->note_count++
add_note_post_incr(r, content) ==
    [r EXCEPT !.note_count = r.note_count + 1,
              !.notes = <<[id |-> r.note_count, ciphertext |-> content]>> \o r.notes]

\* add_note: the room after the note is linked at the front of its list
add_note(r, content) ==
    [r EXCEPT !.note_count = r.note_count + 1,
              !.notes = <<[id |-> r.note_count + 1, ciphertext |-> content]>>
                            \o r.notes]

\* the room list after add_note on the room with this id
with_note(id, content) ==
    [i \in 1..Len(room_list) |->
        IF room_list[i] = find_room_by_id(id) THEN add_note(room_list[i], content)
        ELSE room_list[i]]

(***************************************************************************)
(* Peers.  One event is under way at a time: a peer sends its next packet  *)
(* or closes once the server has read every packet and noticed every       *)
(* closed connection, and every reply has been read.  The server handles   *)
(* one event at a time, so every order of events it can see is kept.       *)
(***************************************************************************)
Quiet ==
    \A f \in Fds :
        /\ toSrv[f] = <<>>
        /\ toCli[f] = <<>>
        /\ peer[f].pc # "closed"

CanSend(fd) ==
    /\ fd \in selector
    /\ Quiet

(***************************************************************************)
(* finalServer.cc: main loop, one action per branch of the event handler   *)
(***************************************************************************)
\* the new context with its current room left at 0
Accept_zero_room(fd, kind) ==
    /\ fd \notin selector
    /\ peer[fd].pc = "none"
    /\ Quiet
    /\ IF fd < MAX_CLIENTS
       THEN /\ selector' = selector \cup {fd}
            /\ client_list' = [client_list EXCEPT ![fd] =
                    [shared_key |-> 0, dh_completed |-> FALSE,
                     current_room_id |-> 0]]
            /\ peer' = [peer EXCEPT ![fd] =
                    [NoPeer EXCEPT !.kind = kind,
                                   !.pc = IF kind = "client" THEN "hs_send"
                                          ELSE "open"]]
       ELSE /\ peer' = [peer EXCEPT ![fd] =
                    [NoPeer EXCEPT !.kind = kind, !.pc = "closed"]]
            /\ UNCHANGED <<selector, client_list>>
    /\ toSrv' = [toSrv EXCEPT ![fd] = <<>>]
    /\ toCli' = [toCli EXCEPT ![fd] = <<>>]
    /\ UNCHANGED <<room_list, next_room_id, calc>>

\* the new connection tested with new_fd <= MAX_CLIENTS
Accept_off_by_one(fd, kind) ==
    /\ fd \notin selector
    /\ peer[fd].pc = "none"
    /\ Quiet
    /\ IF fd <= MAX_CLIENTS
       THEN /\ selector' = selector \cup {fd}
            /\ client_list' = [client_list EXCEPT ![fd] =
                    [shared_key |-> 0, dh_completed |-> FALSE,
                     current_room_id |-> -1]]
            /\ peer' = [peer EXCEPT ![fd] =
                    [NoPeer EXCEPT !.kind = kind,
                                   !.pc = IF kind = "client" THEN "hs_send"
                                          ELSE "open"]]
       ELSE /\ peer' = [peer EXCEPT ![fd] =
                    [NoPeer EXCEPT !.kind = kind, !.pc = "closed"]]
            /\ UNCHANGED <<selector, client_list>>
    /\ toSrv' = [toSrv EXCEPT ![fd] = <<>>]
    /\ toCli' = [toCli EXCEPT ![fd] = <<>>]
    /\ UNCHANGED <<room_list, next_room_id, calc>>

\* lines 160-185: a peer connects and accept() returns descriptor fd
Accept(fd, kind) ==
    /\ fd \notin selector
    /\ peer[fd].pc = "none"
    /\ Quiet
    /\ IF fd < MAX_CLIENTS
       THEN /\ selector' = selector \cup {fd}
            /\ client_list' = [client_list EXCEPT ![fd] =
                    [shared_key |-> 0, dh_completed |-> FALSE,
                     current_room_id |-> -1]]
            /\ peer' = [peer EXCEPT ![fd] =
                    [NoPeer EXCEPT !.kind = kind,
                                   !.pc = IF kind = "client" THEN "hs_send"
                                          ELSE "open"]]
       ELSE \* new_sock->close(): the peer sees its connection closed
            /\ peer' = [peer EXCEPT ![fd] =
                    [NoPeer EXCEPT !.kind = kind, !.pc = "closed"]]
            /\ UNCHANGED <<selector, client_list>>
    /\ toSrv' = [toSrv EXCEPT ![fd] = <<>>]
    /\ toCli' = [toCli EXCEPT ![fd] = <<>>]
    /\ UNCHANGED <<room_list, next_room_id, calc>>

\* select() reports fd: a packet is waiting or the peer closed its end
Readable(fd) ==
    /\ fd \in selector
    /\ IF toSrv[fd] = <<>> THEN peer[fd].pc = "closed" ELSE TRUE

\* recv() returned a whole packet for a live context
Received(fd) ==
    /\ Readable(fd)
    /\ client_list[fd] # NULL
    /\ toSrv[fd] # <<>>

Consume(fd) == toSrv' = [toSrv EXCEPT ![fd] = Tail(toSrv[fd])]

\* the disconnect branch deleting the room the session was in
Disconnect_drop_room(fd) ==
    /\ Readable(fd)
    /\ IF client_list[fd] = NULL
       THEN /\ selector' = selector \ {fd}
            /\ UNCHANGED <<client_list, room_list, peer, toSrv, toCli>>
       ELSE /\ toSrv[fd] = <<>>
            /\ selector' = selector \ {fd}
            /\ client_list' = [client_list EXCEPT ![fd] = NULL]
            /\ room_list' = SelectSeq(room_list,
                    LAMBDA r : r.id # client_list[fd].current_room_id)
            /\ peer' = [peer EXCEPT ![fd] = NoPeer]
            /\ toCli' = [toCli EXCEPT ![fd] = <<>>]
            /\ UNCHANGED toSrv
    /\ UNCHANGED <<next_room_id, calc>>

\* the disconnect branch leaving the context in its slot
Disconnect_keep_ctx(fd) ==
    /\ Readable(fd)
    /\ IF client_list[fd] = NULL
       THEN /\ selector' = selector \ {fd}
            /\ UNCHANGED <<client_list, peer, toSrv, toCli>>
       ELSE /\ toSrv[fd] = <<>>
            /\ selector' = selector \ {fd}
            /\ peer' = [peer EXCEPT ![fd] = NoPeer]
            /\ toCli' = [toCli EXCEPT ![fd] = <<>>]
            /\ UNCHANGED <<client_list, toSrv>>
    /\ UNCHANGED <<room_list, next_room_id, calc>>

\* lines 188-208: no context for fd, or recv() returned n <= 0
Disconnect(fd) ==
    /\ Readable(fd)
    /\ IF client_list[fd] = NULL
       THEN /\ selector' = selector \ {fd}
            /\ UNCHANGED <<client_list, peer, toSrv, toCli>>
       ELSE /\ toSrv[fd] = <<>>
            /\ selector' = selector \ {fd}
            /\ client_list' = [client_list EXCEPT ![fd] = NULL]
            /\ peer' = [peer EXCEPT ![fd] = NoPeer]
            /\ toCli' = [toCli EXCEPT ![fd] = <<>>]
            /\ UNCHANGED toSrv
    /\ UNCHANGED <<room_list, next_room_id, calc>>

\* lines 212-227: the handshake packet, whatever the state of the session
\* r: the two values rand() returns in dh_generate_private
HandleDhPub(fd, r) ==
    /\ Received(fd)
    /\ Head(toSrv[fd]).op = OP_DH_PUB
    /\ LET req == Head(toSrv[fd])
           client_pub == strtoull(req.message)
           my_priv == dh_generate_private(r[1], r[2])
           my_pub == dh_compute_public(my_priv)
           resp == [ZeroPacket EXCEPT !.op = OP_DH_PUB,
                                      !.message = sprintf_llu(my_pub)]
       IN  /\ client_list' = [client_list EXCEPT ![fd] =
                   [@ EXCEPT !.shared_key = dh_compute_shared(client_pub, my_priv),
                             !.dh_completed = TRUE]]
           /\ toCli' = Deliver(fd, <<resp>>)
    /\ Consume(fd)
    /\ UNCHANGED <<room_list, next_room_id, selector, peer, calc>>

\* a command branch entered without the test of dh_completed
Command_unguarded(fd, op) ==
    /\ Received(fd)
    /\ Head(toSrv[fd]).op = op

\* the guard of line 229 together with the opcode test of a branch
Command(fd, op) ==
    /\ Received(fd)
    /\ Head(toSrv[fd]).op = op
    /\ client_list[fd].dh_completed

\* the create handler without ctx->current_room_id = r->id
HandleCreateRoom_no_member(fd, r) ==
    /\ Command(fd, OP_CREATE_ROOM)
    /\ LET ctx == client_list[fd]
           code == (r % 9000) + 1000
           rooms == new_room(code)
           resp == [ZeroPacket EXCEPT !.op = OP_CREATE_ROOM_RESP,
                                      !.room_id = rooms[1].id,
                                      !.tag = rooms[1].invite_code,
                                      !.message = Pad(txtRoomCreated)]
       IN  /\ room_list' = rooms
           /\ next_room_id' = next_room_id + 1
           /\ toCli' = Deliver(fd, <<send_packet_enc(resp, ctx.shared_key)>>)
    /\ Consume(fd)
    /\ UNCHANGED <<client_list, selector, peer, calc>>

\* lines 236-247
\* r: the value rand() returns for the invite code in create_room
HandleCreateRoom(fd, r) ==
    /\ Command(fd, OP_CREATE_ROOM)
    /\ LET ctx == client_list[fd]
           code == (r % 9000) + 1000
           rooms == new_room(code)
           resp == [ZeroPacket EXCEPT !.op = OP_CREATE_ROOM_RESP,
                                      !.room_id = rooms[1].id,
                                      !.tag = rooms[1].invite_code,
                                      !.message = Pad(txtRoomCreated)]
       IN  /\ room_list' = rooms
           /\ next_room_id' = next_room_id + 1
           /\ client_list' = [client_list EXCEPT ![fd].current_room_id = rooms[1].id]
           /\ toCli' = Deliver(fd, <<send_packet_enc(resp, ctx.shared_key)>>)
    /\ Consume(fd)
    /\ UNCHANGED <<selector, peer, calc>>

\* the join handler keeping the current room in one place for all sessions
HandleJoinRoom_all(fd) ==
    /\ Command(fd, OP_JOIN_ROOM)
    /\ LET ctx == client_list[fd]
           r == find_room_by_invite(Head(toSrv[fd]).tag)
           resp == IF r # NULL
                   THEN [ZeroPacket EXCEPT !.op = OP_JOIN_ROOM_RESP,
                                           !.room_id = r.id,
                                           !.message = Pad(txtJoinedRoom \o FormatDec(r.id))]
                   ELSE [ZeroPacket EXCEPT !.op = OP_ERROR,
                                           !.message = Pad(txtInvalidInvite)]
       IN  /\ client_list' =
                 IF r # NULL
                 THEN [g \in SlotFds |->
                         IF client_list[g] = NULL THEN NULL
                         ELSE [client_list[g] EXCEPT !.current_room_id = r.id]]
                 ELSE client_list
           /\ toCli' = Deliver(fd, <<send_packet_enc(resp, ctx.shared_key)>>)
    /\ Consume(fd)
    /\ UNCHANGED <<room_list, next_room_id, selector, peer, calc>>

\* the join handler leaving the room of the session when the code is unknown
HandleJoinRoom_reset(fd) ==
    /\ Command(fd, OP_JOIN_ROOM)
    /\ LET ctx == client_list[fd]
           r == find_room_by_invite(Head(toSrv[fd]).tag)
           resp == IF r # NULL
                   THEN [ZeroPacket EXCEPT !.op = OP_JOIN_ROOM_RESP,
                                           !.room_id = r.id,
                                           !.message = Pad(txtJoinedRoom \o FormatDec(r.id))]
                   ELSE [ZeroPacket EXCEPT !.op = OP_ERROR,
                                           !.message = Pad(txtInvalidInvite)]
       IN  /\ client_list' =
                 [client_list EXCEPT ![fd].current_room_id =
                                        IF r # NULL THEN r.id ELSE -1]
           /\ toCli' = Deliver(fd, <<send_packet_enc(resp, ctx.shared_key)>>)
    /\ Consume(fd)
    /\ UNCHANGED <<room_list, next_room_id, selector, peer, calc>>

\* lines 248-262
HandleJoinRoom(fd) ==
    /\ Command(fd, OP_JOIN_ROOM)
    /\ LET ctx == client_list[fd]
           r == find_room_by_invite(Head(toSrv[fd]).tag)
           resp == IF r # NULL
                   THEN [ZeroPacket EXCEPT !.op = OP_JOIN_ROOM_RESP,
                                           !.room_id = r.id,
                                           !.message = Pad(txtJoinedRoom \o FormatDec(r.id))]
                   ELSE [ZeroPacket EXCEPT !.op = OP_ERROR,
                                           !.message = Pad(txtInvalidInvite)]
       IN  /\ client_list' = IF r # NULL
                             THEN [client_list EXCEPT ![fd].current_room_id = r.id]
                             ELSE client_list
           /\ toCli' = Deliver(fd, <<send_packet_enc(resp, ctx.shared_key)>>)
    /\ Consume(fd)
    /\ UNCHANGED <<room_list, next_room_id, selector, peer, calc>>

\* the post handler looking the room up by the roomId field of the request
HandlePostNote_by_request(fd) ==
    /\ Command(fd, OP_POST_NOTE)
    /\ LET ctx == client_list[fd]
           message == xor_buffer(Head(toSrv[fd]).message, MSG_SIZE, ctx.shared_key)
           id == Head(toSrv[fd]).room_id
       IN  room_list' =
              IF ctx.current_room_id # -1 /\ find_room_by_id(id) # NULL
              THEN with_note(id, message)
              ELSE room_list
    /\ Consume(fd)
    /\ UNCHANGED <<client_list, next_room_id, selector, peer, toCli, calc>>

\* the post handler taking the room of the request when the session has none
HandlePostNote_fallback(fd) ==
    /\ Command(fd, OP_POST_NOTE)
    /\ LET ctx == client_list[fd]
           message == xor_buffer(Head(toSrv[fd]).message, MSG_SIZE, ctx.shared_key)
           id == IF ctx.current_room_id # -1 THEN ctx.current_room_id
                 ELSE Head(toSrv[fd]).room_id
       IN  room_list' =
              IF find_room_by_id(id) # NULL THEN with_note(id, message)
              ELSE room_list
    /\ Consume(fd)
    /\ UNCHANGED <<client_list, next_room_id, selector, peer, toCli, calc>>

\* the post handler storing the message as it came off the wire
HandlePostNote_opaque(fd) ==
    /\ Command(fd, OP_POST_NOTE)
    /\ LET ctx == client_list[fd]
           message == Head(toSrv[fd]).message
       IN  room_list' =
              IF ctx.current_room_id # -1 /\ find_room_by_id(ctx.current_room_id) # NULL
              THEN with_note(ctx.current_room_id, message)
              ELSE room_list
    /\ Consume(fd)
    /\ UNCHANGED <<client_list, next_room_id, selector, peer, toCli, calc>>

\* lines 229-231 and 263-271: the message is deciphered, then stored
HandlePostNote(fd) ==
    /\ Command(fd, OP_POST_NOTE)
    /\ LET ctx == client_list[fd]
           message == xor_buffer(Head(toSrv[fd]).message, MSG_SIZE, ctx.shared_key)
       IN  room_list' =
              IF ctx.current_room_id # -1 /\ find_room_by_id(ctx.current_room_id) # NULL
              THEN with_note(ctx.current_room_id, message)
              ELSE room_list
    /\ Consume(fd)
    /\ UNCHANGED <<client_list, next_room_id, selector, peer, toCli, calc>>

\* the loop of the list handler stepping to cur->next before it sends
NotePackets_skip_first(r, key) ==
    [i \in 1..(Len(r.notes) - 1) |->
        send_packet_enc([ZeroPacket EXCEPT !.op = OP_LIST_NOTES_RESP,
                                           !.tag = r.notes[i + 1].id,
                                           !.message = r.notes[i + 1].ciphertext], key)]

\* the packets of the while loop of lines 276-286, in the order sent
NotePackets(r, key) ==
    [i \in 1..Len(r.notes) |->
        send_packet_enc([ZeroPacket EXCEPT !.op = OP_LIST_NOTES_RESP,
                                           !.tag = r.notes[i].id,
                                           !.message = r.notes[i].ciphertext], key)]

\* the list handler sending the end marker outside the test of the room
HandleListNotes_always_end(fd) ==
    /\ Command(fd, OP_LIST_NOTES)
    /\ LET ctx == client_list[fd]
           r == find_room_by_id(ctx.current_room_id)
           endP == [ZeroPacket EXCEPT !.op = OP_LIST_NOTES_RESP, !.tag = 0]
       IN  toCli' =
              Deliver(fd, (IF ctx.current_room_id # -1 /\ r # NULL
                           THEN NotePackets(r, ctx.shared_key) ELSE <<>>)
                          \o <<send_packet_enc(endP, ctx.shared_key)>>)
    /\ Consume(fd)
    /\ UNCHANGED <<client_list, room_list, next_room_id, selector, peer, calc>>

\* the list handler looking the room up by the roomId field of the request
HandleListNotes_by_request(fd) ==
    /\ Command(fd, OP_LIST_NOTES)
    /\ LET ctx == client_list[fd]
           r == find_room_by_id(Head(toSrv[fd]).room_id)
           endP == [ZeroPacket EXCEPT !.op = OP_LIST_NOTES_RESP, !.tag = 0]
       IN  toCli' =
              IF ctx.current_room_id # -1
              THEN Deliver(fd, (IF r # NULL THEN NotePackets(r, ctx.shared_key) ELSE <<>>)
                               \o <<send_packet_enc(endP, ctx.shared_key)>>)
              ELSE toCli
    /\ Consume(fd)
    /\ UNCHANGED <<client_list, room_list, next_room_id, selector, peer, calc>>

\* lines 272-295
HandleListNotes(fd) ==
    /\ Command(fd, OP_LIST_NOTES)
    /\ LET ctx == client_list[fd]
           r == find_room_by_id(ctx.current_room_id)
           endP == [ZeroPacket EXCEPT !.op = OP_LIST_NOTES_RESP, !.tag = 0]
       IN  toCli' =
              IF ctx.current_room_id # -1
              THEN Deliver(fd, (IF r # NULL THEN NotePackets(r, ctx.shared_key) ELSE <<>>)
                               \o <<send_packet_enc(endP, ctx.shared_key)>>)
              ELSE toCli
    /\ Consume(fd)
    /\ UNCHANGED <<client_list, room_list, next_room_id, selector, peer, calc>>

HandledOps == {OP_DH_PUB, OP_CREATE_ROOM, OP_JOIN_ROOM, OP_POST_NOTE, OP_LIST_NOTES}

\* lines 229-296: an established session, none of the opcodes of the chain
HandleOtherOp(fd) ==
    /\ Received(fd)
    /\ Head(toSrv[fd]).op \notin HandledOps
    /\ client_list[fd].dh_completed
    /\ Consume(fd)
    /\ UNCHANGED <<client_list, room_list, next_room_id, selector, peer, toCli, calc>>

\* lines 212 and 229: not the handshake packet and handshake not completed
HandleBeforeHandshake(fd) ==
    /\ Received(fd)
    /\ Head(toSrv[fd]).op # OP_DH_PUB
    /\ ~client_list[fd].dh_completed
    /\ Consume(fd)
    /\ UNCHANGED <<client_list, room_list, next_room_id, selector, peer, toCli, calc>>

(***************************************************************************)
(* Peers                                                                   *)
(***************************************************************************)
InFlight(op) == {f \in SlotFds : toSrv[f] # <<>> /\ Head(toSrv[f]).op = op}

\* a create-room request may be sent while fewer than MaxRooms rooms are
\* created or requested
RoomsLeft == (next_room_id - 1) + Cardinality(InFlight(OP_CREATE_ROOM)) < MaxRooms

RECURSIVE SumNotes(_)
SumNotes(i) == IF i > Len(room_list) THEN 0 ELSE room_list[i].note_count + SumNotes(i + 1)

\* a post may be sent while fewer than MaxNotes notes are stored or on
\* their way
NotesLeft == SumNotes(1) + Cardinality(InFlight(OP_POST_NOTE)) < MaxNotes

PeerSend(fd, p) == toSrv' = [toSrv EXCEPT ![fd] = Append(toSrv[fd], p)]

\* packets of a peer that is not the client program
RawMsgs == {Pad(<<104, 105, 0, 255, 1, 2, 3, 4, 5>>)}

\* the roomId field a raw peer writes in its post and list requests
RawRoomIds == {1}

RawPackets ==
    {[ZeroPacket EXCEPT !.op = OP_DH_PUB, !.message = sprintf_llu(125)]}
    \cup {[ZeroPacket EXCEPT !.op = o] : o \in {OP_CREATE_ROOM, OP_DISCONNECT, 99}}
    \cup {[ZeroPacket EXCEPT !.op = OP_JOIN_ROOM, !.tag = c] : c \in JoinCodes}
    \cup {[ZeroPacket EXCEPT !.op = OP_POST_NOTE, !.room_id = i, !.message = m] :
              i \in RawRoomIds, m \in RawMsgs}
    \cup {[ZeroPacket EXCEPT !.op = OP_LIST_NOTES, !.room_id = i] : i \in RawRoomIds}

RawSend(fd, p) ==
    /\ peer[fd].kind = "raw"
    /\ CanSend(fd)
    /\ IF p.op = OP_CREATE_ROOM THEN RoomsLeft ELSE TRUE
    /\ IF p.op = OP_POST_NOTE THEN NotesLeft ELSE TRUE
    /\ PeerSend(fd, p)
    /\ UNCHANGED <<client_list, room_list, next_room_id, selector, peer, toCli, calc>>

\* the raw peer reads everything the server sent
RawRecv(fd) ==
    /\ peer[fd].kind = "raw"
    /\ peer[fd].pc = "open"
    /\ toCli[fd] # <<>>
    /\ toCli' = [toCli EXCEPT ![fd] = <<>>]
    /\ UNCHANGED <<client_list, room_list, next_room_id, selector, peer, toSrv, calc>>

\* a peer closes its socket (the client: menu choice 5, closeConnection)
PeerClose(fd) ==
    /\ CanSend(fd)
    /\ peer[fd].pc = (IF peer[fd].kind = "raw" THEN "open" ELSE "menu")
    /\ peer' = [peer EXCEPT ![fd].pc = "closed"]
    /\ toCli' = [toCli EXCEPT ![fd] = <<>>]
    /\ UNCHANGED <<client_list, room_list, next_room_id, selector, toSrv, calc>>

\* the peer of a connection the server refused goes away (the client:
\* doHandshake, lines 98-101)
PeerGone(fd) ==
    /\ fd \notin selector
    /\ peer[fd].pc = "closed"
    /\ peer' = [peer EXCEPT ![fd] = NoPeer]
    /\ toSrv' = [toSrv EXCEPT ![fd] = <<>>]
    /\ UNCHANGED <<client_list, room_list, next_room_id, selector, toCli, calc>>

(***************************************************************************)
(* finalClient.cc                                                          *)
(***************************************************************************)
\* sendEncrypted: the packet put on the wire
sendEncrypted(p, sharedKey) ==
    [p EXCEPT !.message = xor_buffer(p.message, MSG_SIZE, sharedKey)]

\* recvEncrypted: the packet handed to the caller
recvEncrypted(p, sharedKey) ==
    [p EXCEPT !.message = xor_buffer(p.message, MSG_SIZE, sharedKey)]

\* doHandshake, lines 80-88
ClientHandshakeSend(fd, r) ==
    /\ peer[fd].kind = "client" /\ peer[fd].pc = "hs_send"
    /\ LET priv == dh_generate_private(r[1], r[2])
           pub == dh_compute_public(priv)
       IN  /\ peer' = [peer EXCEPT ![fd].priv = priv, ![fd].pc = "hs_recv"]
           /\ PeerSend(fd, [ZeroPacket EXCEPT !.op = OP_DH_PUB,
                                              !.message = sprintf_llu(pub)])
    /\ UNCHANGED <<client_list, room_list, next_room_id, selector, toCli, calc>>

\* doHandshake, lines 91-97
ClientHandshakeRecv(fd) ==
    /\ peer[fd].kind = "client" /\ peer[fd].pc = "hs_recv"
    /\ toCli[fd] # <<>>
    /\ LET resp == Head(toCli[fd])
           server_pub == strtoull(resp.message)
       IN  peer' = [peer EXCEPT
                      ![fd].sharedKey = dh_compute_shared(server_pub, peer[fd].priv),
                      ![fd].pc = "menu"]
    /\ toCli' = [toCli EXCEPT ![fd] = Tail(toCli[fd])]
    /\ UNCHANGED <<client_list, room_list, next_room_id, selector, toSrv, calc>>

InMenu(fd) ==
    /\ peer[fd].kind = "client" /\ peer[fd].pc = "menu"
    /\ CanSend(fd)

\* processMessages, choice 1, lines 137-138
ClientCreateSend(fd) ==
    /\ InMenu(fd)
    /\ RoomsLeft
    /\ PeerSend(fd, sendEncrypted([ZeroPacket EXCEPT !.op = OP_CREATE_ROOM],
                                  peer[fd].sharedKey))
    /\ peer' = [peer EXCEPT ![fd].pc = "create_recv"]
    /\ UNCHANGED <<client_list, room_list, next_room_id, selector, toCli, calc>>

\* processMessages, choice 2, lines 159-161
ClientJoinSend(fd, code) ==
    /\ InMenu(fd)
    /\ PeerSend(fd, sendEncrypted([ZeroPacket EXCEPT !.op = OP_JOIN_ROOM, !.tag = code],
                                  peer[fd].sharedKey))
    /\ peer' = [peer EXCEPT ![fd].pc = "join_recv"]
    /\ UNCHANGED <<client_list, room_list, next_room_id, selector, toCli, calc>>

\* processMessages, lines 140-146 and 163-170: the reply to create or join
ClientReplyRecv(fd) ==
    /\ peer[fd].kind = "client" /\ peer[fd].pc \in {"create_recv", "join_recv"}
    /\ toCli[fd] # <<>>
    /\ LET resp == recvEncrypted(Head(toCli[fd]), peer[fd].sharedKey)
           expected == IF peer[fd].pc = "create_recv" THEN OP_CREATE_ROOM_RESP
                       ELSE OP_JOIN_ROOM_RESP
       IN  peer' = [peer EXCEPT
                      ![fd].currentRoomId = IF resp.op = expected THEN resp.room_id
                                            ELSE @,
                      ![fd].pc = "menu"]
    /\ toCli' = [toCli EXCEPT ![fd] = Tail(toCli[fd])]
    /\ UNCHANGED <<client_list, room_list, next_room_id, selector, toSrv, calc>>

\* processMessages, choice 3, lines 174-184
ClientPost(fd, text) ==
    /\ InMenu(fd)
    /\ peer[fd].currentRoomId # -1
    /\ NotesLeft
    /\ PeerSend(fd, sendEncrypted([ZeroPacket EXCEPT !.op = OP_POST_NOTE,
                                                     !.room_id = peer[fd].currentRoomId,
                                                     !.message = Pad(text)],
                                  peer[fd].sharedKey))
    /\ UNCHANGED <<client_list, room_list, next_room_id, selector, peer, toCli, calc>>

\* processMessages, choice 4, lines 191-194
ClientListSend(fd) ==
    /\ InMenu(fd)
    /\ peer[fd].currentRoomId # -1
    /\ PeerSend(fd, sendEncrypted([ZeroPacket EXCEPT !.op = OP_LIST_NOTES,
                                                     !.room_id = peer[fd].currentRoomId],
                                  peer[fd].sharedKey))
    /\ peer' = [peer EXCEPT ![fd].pc = "list_recv"]
    /\ UNCHANGED <<client_list, room_list, next_room_id, selector, toCli, calc>>

\* processMessages, lines 198-206: one turn of the reading loop
ClientListRecv(fd) ==
    /\ peer[fd].kind = "client" /\ peer[fd].pc = "list_recv"
    /\ toCli[fd] # <<>>
    /\ LET resp == recvEncrypted(Head(toCli[fd]), peer[fd].sharedKey)
       IN  peer' = [peer EXCEPT ![fd].pc = IF resp.tag = 0 THEN "menu" ELSE @]
    /\ toCli' = [toCli EXCEPT ![fd] = Tail(toCli[fd])]
    /\ UNCHANGED <<client_list, room_list, next_room_id, selector, toSrv, calc>>

(***************************************************************************)
(* The system                                                              *)
(***************************************************************************)
\* the server after startup, before any connection
idleSrv ==
    /\ client_list = [fd \in SlotFds |-> NULL]
    /\ room_list = <<>>
    /\ next_room_id = 1
    /\ selector = {}
    /\ peer = [fd \in Fds |-> NoPeer]
    /\ toSrv = [fd \in Fds |-> <<>>]
    /\ toCli = [fd \in Fds |-> <<>>]

Init ==
    /\ idleSrv
    /\ calc = [fn |-> "none"]

\* the server's handling of one event, lines 156-298
Server ==
    \E fd \in SlotFds :
        \/ Disconnect(fd)
        \/ \E r \in ServerKeyRands : HandleDhPub(fd, r)
        \/ \E r \in RandVals : HandleCreateRoom(fd, r)
        \/ HandleJoinRoom(fd)
        \/ HandlePostNote(fd)
        \/ HandleListNotes(fd)

\* peers that send any packet at any time
Next ==
    \/ \E fd \in Fds : Accept(fd, "raw") \/ PeerGone(fd)
    \/ Server
    \/ \E fd \in SlotFds :
          \/ HandleOtherOp(fd)
          \/ HandleBeforeHandshake(fd)
          \/ \E p \in RawPackets : RawSend(fd, p)
          \/ RawRecv(fd)
          \/ PeerClose(fd)

\* peers that run the client program
NextClient ==
    \/ \E fd \in Fds : Accept(fd, "client") \/ PeerGone(fd)
    \/ Server
    \/ \E fd \in SlotFds :
          \/ PeerClose(fd)
          \/ \E r \in ClientKeyRands : ClientHandshakeSend(fd, r)
          \/ ClientHandshakeRecv(fd)
          \/ ClientCreateSend(fd)
          \/ \E code \in JoinCodes : ClientJoinSend(fd, code)
          \/ ClientReplyRecv(fd)
          \/ \E text \in Texts : ClientPost(fd, text)
          \/ ClientListSend(fd)
          \/ ClientListRecv(fd)

SpecClient == Init /\ [][NextClient]_vars

\* the handshake of the client program with the server, over more keys
NextHandshake ==
    \/ \E fd \in Fds : Accept(fd, "client") \/ PeerGone(fd)
    \/ \E fd \in SlotFds :
          \/ Disconnect(fd)
          \/ \E r \in HsServerRands : HandleDhPub(fd, r)
          \/ PeerClose(fd)
          \/ \E r \in HsClientRands : ClientHandshakeSend(fd, r)
          \/ ClientHandshakeRecv(fd)

SpecHandshake == Init /\ [][NextHandshake]_vars

Spec == Init /\ [][Next]_vars

(***************************************************************************)
(* Specification of the key exchange as pure functions                     *)
(***************************************************************************)
DhPrivs == {1, 2, 3, 9001, 65536, 123456789, 1073741824, DH_P - 2, DH_P - 1}

InitDH ==
    /\ idleSrv
    /\ calc \in [fn : {"dh"}, stage : {0}, a : DhPrivs, b : DhPrivs,
                 pubA : {0}, pubB : {0}, sA : {0}, sB : {0}]

DhPublic ==
    /\ calc.fn = "dh" /\ calc.stage = 0
    /\ calc' = [calc EXCEPT !.stage = 1,
                            !.pubA = dh_compute_public(calc.a),
                            !.pubB = dh_compute_public(calc.b)]
    /\ UNCHANGED srvVars

DhShared ==
    /\ calc.fn = "dh" /\ calc.stage = 1
    /\ calc' = [calc EXCEPT !.stage = 2,
                            !.sA = dh_compute_shared(calc.pubB, calc.a),
                            !.sB = dh_compute_shared(calc.pubA, calc.b)]
    /\ UNCHANGED srvVars

NextDH == DhPublic \/ DhShared

SpecDH == InitDH /\ [][NextDH]_vars

(***************************************************************************)
(* Specification of modular_pow, one pass of its loop per step             *)
(***************************************************************************)
PowMods == {2, 3, 7, 9, 11, 31, 151, 331, 46341, 65537, 1073741824,
            DH_P - 1, DH_P}

PowBases == {0, 1, 2, 5, 10, 46340, 123456789, DH_P - 1, DH_P}

PowExps == {0, 1, 2, 9, 13, 30, 9001, 1073741824, DH_P - 1, DH_P}

InitPow ==
    /\ idleSrv
    /\ \E b \in PowBases, e \in PowExps, m \in PowMods :
          calc = [fn |-> "pow", base |-> b, exp |-> e, mod |-> m,
                  v |-> modular_pow_init(b, e, m)]

\* one pass of the while loop
PowStep ==
    /\ calc.fn = "pow"
    /\ calc.v.exp > 0
    /\ calc' = [calc EXCEPT !.v = modular_pow_step(calc.v, calc.mod)]
    /\ UNCHANGED srvVars

NextPow == PowStep

SpecPow == InitPow /\ [][NextPow]_vars

(***************************************************************************)
(* Specification of the keystream cipher as a pure function                *)
(***************************************************************************)
XorKeys == { <<0, 0, 0, 0, 0, 0, 0, 0>>,
             <<1, 2, 3, 4, 5, 6, 7, 8>>,
             <<255, 255, 255, 255, 255, 255, 255, 255>>,
             <<170, 85, 0, 128, 0, 0, 0, 0>>,
             U64Bytes(DH_P - 1) }

XorBuffer(k, n) == [i \in 1..n |-> (k * i + 7 * k * k) % 256]

XorBuffers == { XorBuffer(k, n) : k \in {0, 1, 85, 255}, n \in 0..MaxBufLen }

InitXor ==
    /\ idleSrv
    /\ \E b \in XorBuffers, k \in XorKeys :
          calc = [fn |-> "xor", n |-> 0, orig |-> b, buf |-> b, key |-> k]

XorApply ==
    /\ calc.fn = "xor" /\ calc.n < 2
    /\ calc' = [calc EXCEPT !.n = calc.n + 1,
                            !.buf = xor_key_bytes(calc.buf, Len(calc.buf), calc.key)]
    /\ UNCHANGED srvVars

NextXor == XorApply

SpecXor == InitXor /\ [][NextXor]_vars

\* C2: key agreement is commutative: for private keys a, b in [1, P-1],
\* dh_compute_shared(dh_compute_public(b), a) equals
\* dh_compute_shared(dh_compute_public(a), b)
C2_Commutative ==
    (calc.fn = "dh" /\ calc.stage = 2) =>
        /\ calc.pubA = dh_compute_public(calc.a)
        /\ calc.pubB = dh_compute_public(calc.b)
        /\ calc.sA = calc.sB

C2_Witness ==
    /\ calc.fn = "dh" /\ calc.stage = 2
    /\ calc.a = DH_P - 1 /\ calc.b = 123456789
    /\ calc.pubA # calc.pubB

\* C3: applying xor_buffer twice with the same key returns the buffer
\* exactly, for every length (multiples of 8 or not) and every key
C3_Involution ==
    (calc.fn = "xor" /\ calc.n = 2) => calc.buf = calc.orig

C3_Witness ==
    /\ calc.fn = "xor" /\ calc.n = 2
    /\ Len(calc.buf) = 9
    /\ calc.key = <<1, 2, 3, 4, 5, 6, 7, 8>>
    /\ xor_key_bytes(calc.buf, Len(calc.buf), calc.key) # calc.buf

(***************************************************************************)
(* The session and the room directory                                      *)
(***************************************************************************)
Rooms == {room_list[i] : i \in DOMAIN room_list}

\* the client program has finished doHandshake on fd and has not closed
ClientEstablished(fd) ==
    /\ peer[fd].kind = "client"
    /\ peer[fd].pc \in {"menu", "create_recv", "join_recv", "list_recv"}

\* C1: once the client has sent DH_PUB with its public key and read the
\* server's DH_PUB reply, the shared key in the server's session equals
\* the shared key the client computed
C1_SameSharedKey ==
    \A fd \in SlotFds :
        ClientEstablished(fd) =>
            /\ client_list[fd] # NULL
            /\ client_list[fd].dh_completed
            /\ client_list[fd].shared_key = peer[fd].sharedKey

C1_Witness ==
    /\ ClientEstablished(4) /\ ClientEstablished(5)
    /\ peer[4].priv # peer[5].priv
    /\ client_list[4].shared_key > 1
    /\ client_list[5].shared_key > 1
    /\ client_list[4].shared_key # client_list[5].shared_key

\* the server reads from fd a packet other than DH_PUB while the session
\* has not completed its handshake
ReadsBeforeHandshake(fd) ==
    /\ Received(fd)
    /\ ~client_list[fd].dh_completed
    /\ Head(toSrv[fd]).op # OP_DH_PUB
    /\ toSrv'[fd] = Tail(toSrv[fd])

\* C4: a packet other than DH_PUB read on a session that has not completed
\* its handshake creates no room, appends no note, changes no session and
\* sends nothing
C4_IgnoredBeforeHandshake ==
    [][\A fd \in SlotFds :
          ReadsBeforeHandshake(fd) =>
              /\ room_list' = room_list
              /\ next_room_id' = next_room_id
              /\ client_list' = client_list
              /\ selector' = selector
              /\ toCli' = toCli]_vars

C4_Witness ==
    /\ room_list # <<>>
    /\ client_list[4] # NULL
    /\ ~client_list[4].dh_completed
    /\ toSrv[4] # <<>>
    /\ Head(toSrv[4]).op = OP_POST_NOTE
    /\ client_list[5] # NULL
    /\ client_list[5].current_room_id = 1

\* C5: once a session's handshake has completed, no packet read on that
\* session changes its shared key
C5_KeyFixedOnceEstablished ==
    [][\A fd \in SlotFds :
          (/\ client_list[fd] # NULL
           /\ client_list[fd].dh_completed
           /\ client_list'[fd] # NULL)
          => client_list'[fd].shared_key = client_list[fd].shared_key]_vars

\* C6: the ids of the rooms are pairwise distinct and increase by creation
\* order, the first being 1 (the list holds the newest room first), and
\* the next id to assign is above every id in use
C6_RoomIdsIncrease ==
    /\ \A i \in DOMAIN room_list : room_list[i].id = Len(room_list) - i + 1
    /\ \A i, j \in DOMAIN room_list : i # j => room_list[i].id # room_list[j].id
    /\ \A i \in DOMAIN room_list : room_list[i].id < next_room_id

C6_Witness ==
    /\ Len(room_list) = 2
    /\ client_list[4] # NULL /\ client_list[5] # NULL
    /\ client_list[4].current_room_id = 2
    /\ client_list[5].current_room_id = 1

\* C7: no two rooms of the directory have the same invite code
C7_InviteCodesUnique ==
    \A i, j \in DOMAIN room_list :
        i # j => room_list[i].invite_code # room_list[j].invite_code

\* the room create_room returned last
NewestRoom == CHOOSE r \in Rooms : \A q \in Rooms : q.id <= r.id

\* C8: find_room_by_invite of the invite code of the room create_room
\* returned last is that room, and find_room_by_invite of a code no room
\* carries is NULL
C8_InviteResolves ==
    /\ room_list # <<>> => find_room_by_invite(NewestRoom.invite_code) = NewestRoom
    /\ \A c \in JoinCodes \cup {1234, 0} :
          (\A r \in Rooms : r.invite_code # c) => find_room_by_invite(c) = NULL

C8_Witness ==
    /\ Len(room_list) = 2
    /\ room_list[1].invite_code = room_list[2].invite_code
    /\ room_list[1].invite_code = 1000
    /\ find_room_by_invite(1001) = NULL

\* C9: the reply to a list-notes request carries the notes in the order
\* they were posted, tags 1, 2, 3, ..., and then the terminator with tag 0
C9_ListInPostOrder ==
    \A fd \in SlotFds :
        (toCli[fd] # <<>> /\ toCli[fd][1].op = OP_LIST_NOTES_RESP) =>
            \A i \in DOMAIN toCli[fd] :
                toCli[fd][i].tag = (IF i = Len(toCli[fd]) THEN 0 ELSE i)

\* C10: in every room the note ids are 1, 2, ... in the order posted (the
\* list holds the newest note first), no two notes of a room share an id,
\* and note_count is the number of notes stored
C10_NoteIdsPerRoom ==
    \A r \in Rooms :
        /\ r.note_count = Len(r.notes)
        /\ \A i \in DOMAIN r.notes : r.notes[i].id = Len(r.notes) - i + 1
        /\ \A i, j \in DOMAIN r.notes : i # j => r.notes[i].id # r.notes[j].id

C10_Witness ==
    /\ Len(room_list) = 2
    /\ room_list[1].note_count = 1
    /\ room_list[2].note_count = 1
    /\ room_list[1].notes[1].id = 1
    /\ room_list[2].notes[1].id = 1

(***************************************************************************)
(* Posting, listing and the dispatch of commands                           *)
(***************************************************************************)
\* the server reads the next packet of the established session fd
ReadsEstablished(fd) ==
    /\ Received(fd)
    /\ client_list[fd].dh_completed
    /\ toSrv'[fd] = Tail(toSrv[fd])

\* the server reads a post of a session whose current room exists
PostsToRoom(fd) ==
    /\ ReadsEstablished(fd)
    /\ Head(toSrv[fd]).op = OP_POST_NOTE
    /\ client_list[fd].current_room_id # -1
    /\ find_room_by_id(client_list[fd].current_room_id) # NULL

\* the established sessions whose current room is the room with this id
Members(id) ==
    {g \in SlotFds : /\ client_list[g] # NULL
                     /\ client_list[g].dh_completed
                     /\ client_list[g].current_room_id = id}

\* C11: when an established member of a room posts a note, every other
\* session currently in that room is sent a packet carrying the id of the
\* new note
C11_BroadcastOnPost ==
    [][\A fd \in SlotFds :
          PostsToRoom(fd) =>
              LET r == find_room_by_id(client_list[fd].current_room_id)
              IN  \A g \in Members(r.id) \ {fd} :
                     /\ Len(toCli'[g]) = Len(toCli[g]) + 1
                     /\ toCli'[g][Len(toCli'[g])].tag = r.note_count + 1]_vars

\* a packet from the server that carries the content of a note: not one of
\* the replies with a fixed text and not the terminator of a list
CarriesNote(p) ==
    /\ p.op \notin {OP_DH_PUB, OP_CREATE_ROOM_RESP, OP_JOIN_ROOM_RESP, OP_ERROR}
    /\ ~(p.op = OP_LIST_NOTES_RESP /\ p.tag = 0)

\* the note of this id in room r holds what packet p carries under key
IsNoteOf(p, r, key) ==
    \E i \in DOMAIN r.notes :
        /\ r.notes[i].id = p.tag
        /\ r.notes[i].ciphertext = xor_buffer(p.message, MSG_SIZE, key)

\* C12: every packet carrying a note that is sent to a session is a list
\* reply holding a note of that session's current room; a session with no
\* room is sent no note
C12_NotesOnlyToMembers ==
    \A fd \in SlotFds :
        \A i \in DOMAIN toCli[fd] :
            CarriesNote(toCli[fd][i]) =>
                /\ client_list[fd] # NULL
                /\ toCli[fd][i].op = OP_LIST_NOTES_RESP
                /\ client_list[fd].current_room_id # -1
                /\ find_room_by_id(client_list[fd].current_room_id) # NULL
                /\ IsNoteOf(toCli[fd][i],
                            find_room_by_id(client_list[fd].current_room_id),
                            client_list[fd].shared_key)

C12_Witness ==
    /\ Len(room_list) = 2
    /\ room_list[1].note_count = 1
    /\ room_list[2].note_count = 1
    /\ room_list[1].notes[1].ciphertext # room_list[2].notes[1].ciphertext
    /\ client_list[4] # NULL
    /\ client_list[4].current_room_id = 2
    /\ client_list[5] # NULL
    /\ client_list[5].current_room_id = 1
    /\ Len(toCli[5]) = 2
    /\ CarriesNote(toCli[5][1])

\* the position in the room list of the room with this id
RoomIndex(id) == CHOOSE i \in DOMAIN room_list : room_list[i].id = id

\* the note add_note links into the room of the posting session fd
StoredNote(fd) ==
    room_list'[RoomIndex(client_list[fd].current_room_id)].notes[1]

\* what the client program on fd typed, recovered from its post on the wire
TypedText(fd) == xor_buffer(Head(toSrv[fd]).message, MSG_SIZE, peer[fd].sharedKey)

\* the post of a client is stored as the text typed, under the next id
PostedIsStored ==
    \A fd \in SlotFds :
        (PostsToRoom(fd) /\ peer[fd].kind = "client") =>
            /\ TypedText(fd) \in {Pad(t) : t \in Texts}
            /\ Len(room_list') = Len(room_list)
            /\ StoredNote(fd).ciphertext = TypedText(fd)
            /\ StoredNote(fd).id =
                  room_list[RoomIndex(client_list[fd].current_room_id)].note_count + 1

\* rooms and notes stay as stored: new ones are linked in front
NotesKept ==
    /\ Len(room_list') >= Len(room_list)
    /\ \A i \in DOMAIN room_list :
          LET old == room_list[i]
              new == room_list'[i + Len(room_list') - Len(room_list)]
              d == Len(new.notes) - Len(old.notes)
          IN  /\ new.id = old.id
              /\ d >= 0
              /\ \A k \in DOMAIN old.notes : new.notes[k + d] = old.notes[k]

\* what a client obtains from a list reply, after recvEncrypted, is a note
\* of its room as stored, with the note's id as tag
ListedIsStored ==
    \A fd \in SlotFds :
        (ClientEstablished(fd) /\ client_list[fd] # NULL) =>
            \A i \in DOMAIN toCli[fd] :
                CarriesNote(toCli[fd][i]) =>
                    LET q == recvEncrypted(toCli[fd][i], peer[fd].sharedKey)
                        r == find_room_by_id(client_list[fd].current_room_id)
                    IN  /\ r # NULL
                        /\ \E k \in DOMAIN r.notes :
                              /\ r.notes[k].id = q.tag
                              /\ r.notes[k].ciphertext = q.message

\* C13: the text a client posts to a room is what any client in that room
\* obtains from a list reply after deciphering it with its own key, byte
\* for byte and with the note's id as tag: the post is stored as typed,
\* stored notes never change, and a list reply deciphers to the stored note
C13_RoundTrip ==
    /\ []ListedIsStored
    /\ [][PostedIsStored /\ NotesKept]_vars

C13_Witness ==
    /\ ClientEstablished(4) /\ ClientEstablished(5)
    /\ client_list[4].shared_key # client_list[5].shared_key
    /\ client_list[4].current_room_id = 1
    /\ client_list[5].current_room_id = 1
    /\ peer[5].pc = "list_recv"
    /\ Len(toCli[5]) = 3
    /\ recvEncrypted(toCli[5][1], peer[5].sharedKey).message = Pad(<<98>>)
    /\ recvEncrypted(toCli[5][2], peer[5].sharedKey).message = Pad(<<97>>)

\* C14: the bytes stored for a note are the message bytes of the POST_NOTE
\* packet as received on the wire
C14_StoredAsReceived ==
    [][\A fd \in SlotFds :
          PostsToRoom(fd) =>
              /\ Len(room_list') = Len(room_list)
              /\ StoredNote(fd).ciphertext = Head(toSrv[fd]).message]_vars

\* the opcodes of the requests of the protocol
SupportedOps ==
    {OP_CREATE_ROOM, OP_JOIN_ROOM, OP_POST_NOTE, OP_LIST_NOTES, OP_DISCONNECT}

\* C15: a packet read on an established session whose opcode is neither the
\* handshake's nor one of the supported requests is answered with an ERROR
\* packet to the sender
C15_UnknownOpcodeError ==
    [][\A fd \in SlotFds :
          (/\ ReadsEstablished(fd)
           /\ Head(toSrv[fd]).op \notin SupportedOps \cup {OP_DH_PUB})
          => /\ Len(toCli'[fd]) = Len(toCli[fd]) + 1
             /\ toCli'[fd][Len(toCli'[fd])].op = OP_ERROR]_vars

\* C16: a DISCONNECT packet read on an established session closes it: the
\* slot of the session is cleared and its descriptor leaves the selector
C16_DisconnectCloses ==
    [][\A fd \in SlotFds :
          (ReadsEstablished(fd) /\ Head(toSrv[fd]).op = OP_DISCONNECT)
          => /\ client_list'[fd] = NULL
             /\ fd \notin selector']_vars

(***************************************************************************)
(* Closing, isolation and joining                                          *)
(***************************************************************************)
\* recv() on the live session fd returns n <= 0: the peer closed its end and
\* nothing is left to read
FailedRead(fd) ==
    /\ fd \in selector
    /\ client_list[fd] # NULL
    /\ toSrv[fd] = <<>>
    /\ peer[fd].pc = "closed"

\* a step that touches the session of fd
Touches(fd) ==
    \/ client_list'[fd] # client_list[fd]
    \/ (fd \in selector') # (fd \in selector)
    \/ toCli'[fd] # toCli[fd]

\* a cleared slot is not watched and nothing is queued for it
ClearedIsUnwatched ==
    \A fd \in SlotFds :
        client_list[fd] = NULL => (fd \notin selector /\ toCli[fd] = <<>>)

\* C17: a failed read on a session, before or after its handshake, removes
\* its descriptor from the selector and clears its slot, leaving the rooms
\* as they are; while the slot is cleared no packet is read from it or sent
\* to it
C17_FailedReadCloses ==
    /\ []ClearedIsUnwatched
    /\ [][\A fd \in SlotFds :
            /\ (FailedRead(fd) /\ Touches(fd)) =>
                  /\ fd \notin selector'
                  /\ client_list'[fd] = NULL
                  /\ toCli'[fd] = <<>>
                  /\ room_list' = room_list
            /\ (client_list[fd] = NULL /\ client_list'[fd] = NULL) =>
                  /\ toCli'[fd] = <<>>
                  /\ toSrv[fd] # <<>> => toSrv'[fd] # Tail(toSrv[fd])]_vars

C17_Witness ==
    /\ FailedRead(4)
    /\ client_list[4].dh_completed
    /\ client_list[4].current_room_id = 1
    /\ room_list # <<>>
    /\ client_list[5] # NULL
    /\ ~client_list[5].dh_completed

\* the server handles an event of session fd: it reads its next packet or
\* its read fails and the session is closed
EventOf(fd) ==
    \/ Received(fd) /\ toSrv'[fd] = Tail(toSrv[fd])
    \/ FailedRead(fd) /\ fd \notin selector'

\* C18: handling an event of one session leaves the handshake flag, shared
\* key and current room of every other session unchanged, closes no other
\* session and sends nothing to it
C18_SessionIsolation ==
    [][\A fd \in SlotFds :
          EventOf(fd) =>
              \A g \in SlotFds \ {fd} :
                  /\ client_list'[g] = client_list[g]
                  /\ (g \in selector) = (g \in selector')
                  /\ toCli'[g] = toCli[g]]_vars

C18_Witness ==
    /\ client_list[4] # NULL /\ client_list[5] # NULL
    /\ client_list[4].dh_completed /\ client_list[5].dh_completed
    /\ client_list[4].current_room_id = 1
    /\ client_list[5].current_room_id = 2
    /\ toSrv[5] # <<>>
    /\ Head(toSrv[5]).op = OP_JOIN_ROOM
    /\ find_room_by_invite(Head(toSrv[5]).tag) # NULL
    /\ find_room_by_invite(Head(toSrv[5]).tag).id = 1

\* the server reads a join request of an established session whose invite
\* code no room carries
FailedJoin(fd) ==
    /\ ReadsEstablished(fd)
    /\ Head(toSrv[fd]).op = OP_JOIN_ROOM
    /\ \A r \in Rooms : r.invite_code # Head(toSrv[fd]).tag

\* the reply to a failed join: an ERROR packet with this text, deciphered
\* with the key of the session, and nothing else changed
FailedJoinReply(fd, text) ==
    /\ Len(toCli'[fd]) = Len(toCli[fd]) + 1
    /\ toCli'[fd][Len(toCli'[fd])].op = OP_ERROR
    /\ xor_buffer(toCli'[fd][Len(toCli'[fd])].message, MSG_SIZE,
                  client_list[fd].shared_key) = Pad(text)
    /\ client_list' = client_list
    /\ room_list' = room_list
    /\ next_room_id' = next_room_id

\* "Invalid Code"
txtInvalidCode == <<73, 110, 118, 97, 108, 105, 100, 32, 67, 111, 100, 101>>

\* C19 as stated: a join request whose invite code resolves to no room is
\* answered with an ERROR packet whose message is "Invalid Code", the
\* session and the room directory unchanged
C19_InvalidCodeError ==
    [][\A fd \in SlotFds : FailedJoin(fd) => FailedJoinReply(fd, txtInvalidCode)]_vars

\* C19 as amended: a join request whose invite code resolves to no room is
\* answered with an ERROR packet whose message is "Invalid Invite Code",
\* the session and the room directory unchanged
C19_InvalidInviteCodeError ==
    [][\A fd \in SlotFds : FailedJoin(fd) => FailedJoinReply(fd, txtInvalidInvite)]_vars

C19_Witness ==
    /\ client_list[4] # NULL
    /\ client_list[4].dh_completed
    /\ client_list[4].current_room_id = 1
    /\ Len(room_list) = 1
    /\ room_list[1].invite_code = 1000
    /\ Len(toCli[4]) = 1
    /\ toCli[4][1].op = OP_ERROR

\* C20: a join request whose tag is the invite code of an existing room is
\* answered with JOIN_ROOM_RESP carrying the id of that room, the session's
\* current room becomes that room, and the rooms and their notes stay as
\* they are
C20_JoinEntersRoom ==
    [][\A fd \in SlotFds : \A r \in Rooms :
          (/\ ReadsEstablished(fd)
           /\ Head(toSrv[fd]).op = OP_JOIN_ROOM
           /\ r.invite_code = Head(toSrv[fd]).tag)
          => /\ Len(toCli'[fd]) = Len(toCli[fd]) + 1
             /\ toCli'[fd][Len(toCli'[fd])].op = OP_JOIN_ROOM_RESP
             /\ toCli'[fd][Len(toCli'[fd])].room_id = r.id
             /\ client_list'[fd].current_room_id = r.id
             /\ room_list' = room_list]_vars

(***************************************************************************)
(* Creating rooms, posting without a room, refusing connections            *)
(***************************************************************************)
\* the server reads a create request of the established session fd
Creates(fd) ==
    /\ ReadsEstablished(fd)
    /\ Head(toSrv[fd]).op = OP_CREATE_ROOM

\* C21: a create-room request on an established session adds exactly one
\* room, with no notes and an id no room had, makes it the current room of
\* the session and is answered with exactly one CREATE_ROOM_RESP carrying
\* the id of the new room as roomId and its invite code as tag
C21_CreateAddsOneRoom ==
    [][\A fd \in SlotFds :
          Creates(fd) =>
              /\ Len(room_list') = Len(room_list) + 1
              /\ Tail(room_list') = room_list
              /\ room_list'[1].notes = <<>>
              /\ room_list'[1].note_count = 0
              /\ \A r \in Rooms : r.id # room_list'[1].id
              /\ client_list'[fd].current_room_id = room_list'[1].id
              /\ Len(toCli'[fd]) = Len(toCli[fd]) + 1
              /\ LET resp == toCli'[fd][Len(toCli'[fd])]
                 IN  /\ resp.op = OP_CREATE_ROOM_RESP
                     /\ resp.room_id = room_list'[1].id
                     /\ resp.tag = room_list'[1].invite_code]_vars

C21_Witness ==
    /\ Len(room_list) = 2
    /\ client_list[4] # NULL
    /\ client_list[4].current_room_id = 2
    /\ Len(toCli[4]) = 1
    /\ toCli[4][1].op = OP_CREATE_ROOM_RESP
    /\ toCli[4][1].room_id = 2
    /\ toCli[4][1].tag = room_list[1].invite_code

\* the server reads a post of an established session that has no room
PostsWithoutRoom(fd) ==
    /\ ReadsEstablished(fd)
    /\ Head(toSrv[fd]).op = OP_POST_NOTE
    /\ client_list[fd].current_room_id = -1

\* C22: a post-note request of an established session with no current
\* room appends no note to any room and changes no note counter
C22_PostWithoutRoom ==
    [][\A fd \in SlotFds : PostsWithoutRoom(fd) => room_list' = room_list]_vars

C22_Witness ==
    /\ room_list # <<>>
    /\ client_list[4] # NULL
    /\ client_list[4].dh_completed
    /\ client_list[4].current_room_id = -1
    /\ toSrv[4] # <<>>
    /\ Head(toSrv[4]).op = OP_POST_NOTE
    /\ find_room_by_id(Head(toSrv[4]).room_id) # NULL

\* descriptors the table has a slot for
TableRange == 0 .. (MAX_CLIENTS - 1)

\* every slot written and every descriptor watched is inside the table
InsideTable ==
    /\ DOMAIN client_list \subseteq TableRange
    /\ selector \subseteq TableRange

\* accept() returns a descriptor that is not below MAX_CLIENTS
AcceptsBeyondTable(fd) ==
    /\ fd >= MAX_CLIENTS
    /\ peer[fd].pc = "none"
    /\ peer'[fd].pc # "none"

\* C23: a connection whose descriptor is not below MAX_CLIENTS is closed at
\* once and gets no session: no slot is written, the descriptor is not
\* added to the selector, and every table access stays inside the table
C23_FullTableRejects ==
    /\ []InsideTable
    /\ [][\A fd \in Fds :
            AcceptsBeyondTable(fd) =>
                /\ peer'[fd].pc = "closed"
                /\ client_list' = client_list
                /\ selector' = selector]_vars

C23_Witness ==
    /\ peer[MAX_CLIENTS].pc = "closed"
    /\ selector = SlotFds
    /\ \A fd \in SlotFds : client_list[fd] # NULL

(***************************************************************************)
(* modular_pow                                                             *)
(***************************************************************************)
\* base^exp, exp >= 1, is below 2^31 and can be formed directly
PowerFits(b, e) ==
    /\ e >= 1
    /\ \/ (e <= 2 /\ b <= 46340)
       \/ (e <= 9 /\ b <= 10)
       \/ (e <= 13 /\ b <= 5)
       \/ (e <= 30 /\ b <= 2)

\* the loop of modular_pow has ended
PowDone == calc.fn = "pow" /\ calc.v.exp = 0

\* C24: modular_pow(base, exp, m) is base^exp mod m for m > 1: the value
\* the loop ends with is the value of modular_pow, is below m, is 1 for
\* exp = 0, equals base^exp % m wherever base^exp can be formed directly,
\* follows from the value for exp - 1 by one multiplication (small m),
\* agrees modulo every small divisor d of m with the power modulo d, and
\* obeys Fermat's theorem for the prime DH_P; dh_compute_public and
\* dh_compute_shared are below DH_P
C24_ModexpCorrect ==
    PowDone =>
        LET b == calc.base
            e == calc.exp
            m == calc.mod
            res == calc.v.result
        IN  /\ res = modular_pow(b, e, m)
            /\ res >= 0 /\ res < m
            /\ e = 0 => res = 1
            /\ PowerFits(b, e) => res = (b ^ e) % m
            /\ (m <= 46341 /\ e >= 1) =>
                  res = (modular_pow(b, e - 1, m) * (b % m)) % m
            /\ \A d \in PowMods :
                  (d <= 46341 /\ m % d = 0) => res % d = modular_pow(b, e, d)
            /\ (m = DH_P /\ b % m # 0 /\ e = DH_P - 1) => res = 1
            /\ (m = DH_P /\ e = DH_P) => res = b % m
            /\ dh_compute_public(e) < DH_P
            /\ dh_compute_shared(b, e) < DH_P

C24_Witness ==
    /\ PowDone
    /\ calc.base = 123456789
    /\ calc.exp = DH_P - 1
    /\ calc.mod = DH_P
    /\ calc.v.result = 1

\* C27: with modulus DH_P both operands of every product modular_pow forms
\* (result * base and base * base) are below DH_P < 2^31 at every pass of
\* the loop, so every product is below 2^62 and the 64-bit arithmetic does
\* not wrap
C27_ProductsFit ==
    (calc.fn = "pow" /\ calc.mod = DH_P) =>
        /\ calc.v.result >= 0 /\ calc.v.result < DH_P
        /\ calc.v.base >= 0 /\ calc.v.base < DH_P

C27_Witness ==
    /\ calc.fn = "pow" /\ calc.mod = DH_P
    /\ calc.base = 123456789
    /\ calc.v.exp > 1
    /\ calc.v.base > 1073741824
    /\ calc.v.result > 1073741824

\* every room is the one find_room_by_id returns for its id
FindableById == \A r \in Rooms : find_room_by_id(r.id) = r

\* the rooms of this state are the last rooms of the next one, each with
\* its id, its invite code and its notes as the last notes of the next state
RoomsKept ==
    /\ Len(room_list') >= Len(room_list)
    /\ \A i \in DOMAIN room_list :
          LET old == room_list[i]
              new == room_list'[i + Len(room_list') - Len(room_list)]
              k == Len(new.notes) - Len(old.notes)
          IN  /\ new.id = old.id
              /\ new.invite_code = old.invite_code
              /\ k >= 0
              /\ \A j \in DOMAIN old.notes : new.notes[j + k] = old.notes[j]

\* C25: rooms and notes are never deleted: over every step, disconnects
\* included, the directory only grows, each room keeps its id, its invite
\* code and its stored notes unaltered, and each room is found by its id
C25_RoomsNeverDeleted == []FindableById /\ [][RoomsKept]_vars

\* two rooms, the older one holding a note, after every session has gone
C25_Witness ==
    /\ Len(room_list) = 2
    /\ Len(room_list[2].notes) >= 1
    /\ \A fd \in SlotFds : client_list[fd] = NULL /\ peer[fd].pc = "none"
    /\ selector = {}

\* the server reads a list request of a session whose current room exists
ListsRoom(fd) ==
    /\ ReadsEstablished(fd)
    /\ Head(toSrv[fd]).op = OP_LIST_NOTES
    /\ client_list[fd].current_room_id # -1
    /\ find_room_by_id(client_list[fd].current_room_id) # NULL

\* the packets the step appends to the stream to fd
SentTo(fd) == SubSeq(toCli'[fd], Len(toCli[fd]) + 1, Len(toCli'[fd]))

\* the reply to a list is one note packet per stored note, then the end mark
ListReplyComplete ==
    \A fd \in SlotFds :
        ListsRoom(fd) =>
            LET r == find_room_by_id(client_list[fd].current_room_id)
                key == client_list[fd].shared_key
                n == Len(r.notes)
                sent == SentTo(fd)
            IN  /\ Len(toCli'[fd]) = Len(toCli[fd]) + n + 1
                /\ \A i \in 1..n :
                      /\ sent[i].op = OP_LIST_NOTES_RESP
                      /\ sent[i].tag # 0
                /\ \A j \in DOMAIN r.notes :
                      Cardinality({i \in 1..n :
                          /\ sent[i].tag = r.notes[j].id
                          /\ xor_buffer(sent[i].message, MSG_SIZE, key)
                               = r.notes[j].ciphertext}) = 1
                /\ sent[n + 1].op = OP_LIST_NOTES_RESP
                /\ sent[n + 1].tag = 0

NoNoteIdZero ==
    \A r \in Rooms : \A j \in DOMAIN r.notes : r.notes[j].id # 0

\* C26: a list request of an established session whose room holds n notes
\* is answered by n LIST_NOTES_RESP packets with non-zero tags, one per
\* stored note, then one LIST_NOTES_RESP with tag 0; no stored note has id 0
C26_ListThenTerminator == []NoNoteIdZero /\ [][ListReplyComplete]_vars

\* session 4 has been sent the two notes of its room and the end mark
C26_Witness ==
    /\ Len(toCli[4]) = 3
    /\ \A i \in 1..3 : toCli[4][i].op = OP_LIST_NOTES_RESP
    /\ toCli[4][1].tag # 0
    /\ toCli[4][2].tag # 0
    /\ toCli[4][3].tag = 0

\* a post read from a session in room X adds one note to X and leaves
\* every other room as it was
PostStaysInOwnRoom ==
    \A fd \in SlotFds :
        (/\ ReadsEstablished(fd)
         /\ Head(toSrv[fd]).op = OP_POST_NOTE
         /\ client_list[fd].current_room_id # -1) =>
            /\ Len(room_list') = Len(room_list)
            /\ \A i \in DOMAIN room_list :
                  IF room_list[i].id = client_list[fd].current_room_id
                  THEN room_list'[i].notes # room_list[i].notes
                  ELSE room_list'[i] = room_list[i]

\* a list read from a session in room X is answered with notes of X only
ListStaysInOwnRoom ==
    \A fd \in SlotFds :
        (/\ ReadsEstablished(fd)
         /\ Head(toSrv[fd]).op = OP_LIST_NOTES) =>
            \A i \in 1..(Len(toCli'[fd]) - Len(toCli[fd])) :
                CarriesNote(SentTo(fd)[i]) =>
                    /\ client_list[fd].current_room_id # -1
                    /\ find_room_by_id(client_list[fd].current_room_id) # NULL
                    /\ IsNoteOf(SentTo(fd)[i],
                                find_room_by_id(client_list[fd].current_room_id),
                                client_list[fd].shared_key)

\* C28: post-note and list-notes act on the current room of the session
\* whatever roomId the request carries: a session in room X appends to and
\* reads from room X only
C28_IgnoresRequestRoomId == [][PostStaysInOwnRoom /\ ListStaysInOwnRoom]_vars

\* a session in room 2 is about to have a post naming room 1 read, and
\* room 1 exists
C28_Witness ==
    /\ Len(room_list) = 2
    /\ client_list[5] # NULL
    /\ client_list[5].dh_completed
    /\ client_list[5].current_room_id = 2
    /\ toSrv[5] # <<>>
    /\ Head(toSrv[5]).op = OP_POST_NOTE
    /\ Head(toSrv[5]).room_id = 1
    /\ find_room_by_id(1) # NULL
    /\ Len(find_room_by_id(2).notes) = 1

\* the current room of every live session is -1 or the id of a room
CurrentRoomExists ==
    \A fd \in SlotFds :
        client_list[fd] # NULL =>
            \/ client_list[fd].current_room_id = -1
            \/ find_room_by_id(client_list[fd].current_room_id) # NULL

\* a new session has no room; the room of a session changes only when a
\* create or a join of that session is read, to a room of the directory
CurrentRoomSteps ==
    \A fd \in SlotFds :
        /\ (client_list[fd] = NULL /\ client_list'[fd] # NULL) =>
              client_list'[fd].current_room_id = -1
        /\ (/\ client_list[fd] # NULL
            /\ client_list'[fd] # NULL
            /\ client_list'[fd].current_room_id # client_list[fd].current_room_id) =>
              /\ ReadsEstablished(fd)
              /\ Head(toSrv[fd]).op \in {OP_CREATE_ROOM, OP_JOIN_ROOM}
              /\ \E i \in DOMAIN room_list' :
                    room_list'[i].id = client_list'[fd].current_room_id
              /\ Head(toSrv[fd]).op = OP_JOIN_ROOM =>
                    /\ find_room_by_invite(Head(toSrv[fd]).tag) # NULL
                    /\ client_list'[fd].current_room_id
                         = find_room_by_invite(Head(toSrv[fd]).tag).id

\* C29: the current room of each live session is -1 or the id of a room of
\* the directory; it is -1 from the accept until the first successful
\* create or join of the session, and a later one replaces it
C29_CurrentRoomValid == []CurrentRoomExists /\ [][CurrentRoomSteps]_vars

\* two rooms exist; session 4 has just been told it joined room 1, the room
\* session 5 is in
C29_Witness ==
    /\ Len(room_list) = 2
    /\ client_list[4] # NULL /\ client_list[5] # NULL
    /\ client_list[4].current_room_id = 1
    /\ client_list[5].current_room_id = 1
    /\ Len(toCli[4]) = 1
    /\ toCli[4][1].op = OP_JOIN_ROOM_RESP
    /\ toCli[4][1].room_id = 1

\* the text the server wrote into the reply p before send_packet_enc
ReplyText(p) ==
    IF p.op = OP_CREATE_ROOM_RESP THEN Pad(txtRoomCreated)
    ELSE IF p.op = OP_JOIN_ROOM_RESP THEN Pad(txtJoinedRoom \o FormatDec(p.room_id))
    ELSE Pad(txtInvalidInvite)

\* offsets i of the message with i mod 8 in 4..7, as 1-based positions
ClearOffsets == {i \in 1..MSG_SIZE : (i - 1) % 8 >= 4}

\* C30: the shared key of every established session is below P, its upper
\* four bytes are zero, and every message byte the server sends at an
\* offset i with i mod 8 in 4..7 is the byte of the plain text
C30_UpperKeyBytesClear ==
    \A fd \in SlotFds :
        (client_list[fd] # NULL /\ client_list[fd].dh_completed) =>
            LET key == client_list[fd].shared_key
            IN  /\ key >= 0 /\ key < DH_P
                /\ \A i \in 5..8 : U64Bytes(key)[i] = 0
                /\ \A k \in DOMAIN toCli[fd] :
                      toCli[fd][k].op \in {OP_CREATE_ROOM_RESP, OP_JOIN_ROOM_RESP, OP_ERROR} =>
                          \A i \in ClearOffsets :
                              toCli[fd][k].message[i] = ReplyText(toCli[fd][k])[i]

\* session 4 holds a reply to a create whose first byte is enciphered and
\* whose bytes at offsets 4 to 7 are those of the text
C30_Witness ==
    /\ client_list[4] # NULL /\ client_list[4].dh_completed
    /\ client_list[4].shared_key > 16777216
    /\ \E k \in DOMAIN toCli[4] :
          /\ toCli[4][k].op = OP_CREATE_ROOM_RESP
          /\ toCli[4][k].message[1] # txtRoomCreated[1]
          /\ \A i \in ClearOffsets :
                toCli[4][k].message[i] = Pad(txtRoomCreated)[i]

\* packet p is the end marker of a list reply
IsTerminator(p) == p.op = OP_LIST_NOTES_RESP /\ p.tag = 0

\* the step appends an end marker to the stream to fd
SendsTerminator(fd) ==
    \E i \in 1..(Len(toCli'[fd]) - Len(toCli[fd])) : IsTerminator(SentTo(fd)[i])

\* the server reads a list request of an established session
ReadsList(fd) ==
    /\ ReadsEstablished(fd)
    /\ Head(toSrv[fd]).op = OP_LIST_NOTES

\* a list of a session with no room sends nothing; a list of a session with
\* a room sends the end marker; no other step sends an end marker
TerminatorIffRoom ==
    \A fd \in SlotFds :
        /\ (ReadsList(fd) /\ client_list[fd].current_room_id = -1) =>
              toCli'[fd] = toCli[fd]
        /\ (ReadsList(fd) /\ client_list[fd].current_room_id # -1) =>
              /\ Len(toCli'[fd]) > Len(toCli[fd])
              /\ IsTerminator(toCli'[fd][Len(toCli'[fd])])
        /\ SendsTerminator(fd) =>
              /\ ReadsList(fd)
              /\ client_list[fd].current_room_id # -1

\* the stream to an established session with no room holds no list reply
RoomlessUnanswered ==
    \A fd \in SlotFds :
        (/\ client_list[fd] # NULL
         /\ client_list[fd].dh_completed
         /\ client_list[fd].current_room_id = -1) =>
            \A k \in DOMAIN toCli[fd] : toCli[fd][k].op # OP_LIST_NOTES_RESP

\* C31: a list request of an established session with no current room is
\* answered by no packet, not even the tag 0 end marker, so the requester
\* never holds an answer; the end marker is sent if and only if the session
\* has a current room
C31_NoRoomNoTerminator == []RoomlessUnanswered /\ [][TerminatorIffRoom]_vars

\* session 4, established and with no room, has a list request about to be
\* read while session 5 is in a room that holds a note
C31_Witness ==
    /\ client_list[4] # NULL
    /\ client_list[4].dh_completed
    /\ client_list[4].current_room_id = -1
    /\ toSrv[4] # <<>>
    /\ Head(toSrv[4]).op = OP_LIST_NOTES
    /\ client_list[5] # NULL
    /\ client_list[5].current_room_id = 1
    /\ find_room_by_id(1) # NULL
    /\ Len(find_room_by_id(1).notes) >= 1

====
